---- MODULE Spec2Model ----
(***************************************************************************)
(* A model of the research pipeline of backend/research_pipeline.py: the   *)
(* job orchestrator run_research_job, its worker pipeline                  *)
(* process_candidate, and the job/draft persistence of backend/database.py.*)
(*                                                                         *)
(* Every await of the Python code is a point where other coroutines (the   *)
(* sibling workers of a page, an external actor that cancels the job) may  *)
(* run; the code between two awaits is one atomic action here.  Scores are *)
(* kept in tenths (3.0 is 30) so that the model stays in the integers.     *)
(***************************************************************************)
EXTENDS Integers, Sequences, FiniteSets, TLC

VARIABLES
    job,        \* the research_jobs row of the job
    drafts,     \* the research_drafts rows of the job, in id order
    reports,    \* the research rows written by add_research
    run,        \* the locals of run_research_job and its position
    w,          \* the tasks (_run / process_candidate) of the current page
    cfg,        \* the job's merged configuration, fixed when the run starts
    cancel_pc,  \* where run_research_job stood when the job was canceled
    cache,      \* the cached_pages table, shared by all jobs
    now,        \* the clock (datetime.utcnow), in hours
    origin,     \* the version of each page its web server holds
    fj,         \* the fetches in progress, each with the locals of its worker
    begun,      \* the number of jobs that have fetched the page so far
    per_domain_rps, \* the job's per_domain_rps, in units of 0.00005 per second
    mono,       \* the clock of time.monotonic, in units of 5000 seconds
    domain_locks,   \* the holder of each domain's asyncio.Lock (0: free)
    domain_last,    \* the dict domain_last: the time of each domain's last pass
    rt,         \* the tasks that call _rate_limit
    leaf,       \* source-free discovery: what each feed or domain returned
    pages,      \* the results of the provider tasks, as asyncio.gather gives them
    discovered, \* the orchestrator's discovered_candidates, once merged
    canon,      \* a URL string and what canonicalization makes of it
    search,     \* fetch_page in search mode: its switches, position and results
    ct,         \* the tasks of _crawl_domain_start, each with its locals
    _robots_cache   \* discovery/utils._robots_cache: per domain (time, rules)

jobVars == <<job, drafts, reports, run, w, cfg, cancel_pc>>
fetchVars == <<cache, now, origin, fj, begun>>
rateVars == <<per_domain_rps, mono, domain_locks, domain_last, rt>>
discVars == <<leaf, pages, discovered>>
vars == <<job, drafts, reports, run, w, cfg, cancel_pc, cache, now, origin, fj, begun,
          per_domain_rps, mono, domain_locks, domain_last, rt, leaf, pages, discovered,
          canon, search, ct, _robots_cache>>
crawlVars == <<ct, _robots_cache>>

\* what the steps of one part of the program leave alone
nonJobVars == <<fetchVars, rateVars, discVars, canon, search, crawlVars>>
nonFetchVars == <<jobVars, rateVars, discVars, canon, search, crawlVars>>
nonRateVars == <<jobVars, fetchVars, discVars, canon, search, crawlVars>>
nonDiscVars == <<jobVars, fetchVars, rateVars, canon, search, crawlVars>>
nonCanonVars == <<jobVars, fetchVars, rateVars, discVars, search, crawlVars>>
nonSearchVars == <<jobVars, fetchVars, rateVars, discVars, canon, crawlVars>>
nonCrawlVars == <<jobVars, rateVars, discVars, canon, search, cache, origin, fj, begun>>

----------------------------------------------------------------------------
(* Bounds of the model *)

MaxTarget == 2
MaxConcurrency == 2
MaxPages == 2
MaxJobs == 2
MaxClock == 2
MaxVersion == 2
MaxRateTasks == 3
\* the counts a row may carry when it is run again
MaxCarried == 1

\* the largest max_pages_per_domain of a crawl
MaxCrawlPages == 2

MaxMono == 5

(* Program constants *)

\* max(0.5, dynamic_min_score - 0.5): the floor and the step, in tenths
ScoreFloor == 5
ScoreStep == 5

\* the clamp 0.0001 of line 376, in the units of per_domain_rps
RpsClamp == 2


----------------------------------------------------------------------------
(* URLs, titles and page contents *)

\* A URL as urlparse splits it; netloc keeps the case it was written in.
Url(h, p, q) == [host |-> h, path |-> p, query |-> q]

\* str.lower() on the host names the candidates use
LowerHost(h) == IF h = "A.au" THEN "a.au" ELSE h

\* _canon_url: scheme://netloc + path, query and fragment dropped
_canon_url(u) == [host |-> u.host, path |-> u.path]

\* cu.lower(), the key of the seen set
CanonLower(u) == [host |-> LowerHost(u.host), path |-> u.path]

\* _title_key: lower-cased, non-word characters removed
_title_key(t) ==
    CASE t = "Breach"  -> "breach"
      [] t = "breach!" -> "breach"
      [] t = "Hack"    -> "hack"
      [] OTHER         -> t

\* the pages the discovery delivers, page_index 0 first
PAGES ==
    << << [url |-> Url("a.au", "/news/1", ""),  title |-> "Breach"],
          [url |-> Url("b.com", "/news/2", ""), title |-> "Hack"] >>,
       << [url |-> Url("A.au", "/news/1", "x"), title |-> "Breach"],
          [url |-> Url("b.com", "/news/3", ""), title |-> "breach!"] >>,
       << [url |-> Url("b.com", "/news/4", ""), title |-> "Hack"] >> >>

\* What the discovery sources do: "results" is a search that pages until it is
\* exhausted (or the slices of the source-free candidate list), "empty" is
\* every source returning nothing or failing, "repeat" is a search backend
\* that takes no page offset (research._search_tavily, line 538) and answers
\* every page_index with the same results.
DiscoveryValues == {"results", "empty", "repeat"}

\* fetch_page(page_index): a page of candidates, empty when discovery is exhausted
fetch_page(k) ==
    IF cfg.discovery = "empty" THEN << >>
    ELSE IF cfg.discovery = "repeat" THEN PAGES[1]
    ELSE IF k < MaxPages /\ k < Len(PAGES) THEN PAGES[k + 1] ELSE << >>

\* What a fetched page holds, as far as gating reads it: the hashed prefix of
\* its text (id), whether an incident keyword occurs in title+text (kw),
\* whether Australia is mentioned (au), and what _score_candidate gives it.
Contents ==
    { [id |-> 1, kw |-> TRUE,  au |-> TRUE,  score |-> 40],
      [id |-> 2, kw |-> TRUE,  au |-> TRUE,  score |-> 10],
      [id |-> 3, kw |-> TRUE,  au |-> FALSE, score |-> 40],
      [id |-> 4, kw |-> FALSE, au |-> TRUE,  score |-> 40] }

\* _content_hash(text[:5000])
_content_hash(c) == c.id

\* ".au" in url.lower()
UrlHasAu(u) == LowerHost(u.host) = "a.au"

----------------------------------------------------------------------------
(* Configuration *)

\* accept_all is read by _is_low_signal and by the gating of process_candidate
\* and is bound nowhere in the source files: "unbound" is the shipped build, in
\* which reading it raises NameError; "true" and "false" are the bindings of a
\* deployment that defines the flag.
AcceptAllValues == {"unbound", "false", "true"}
MinScoreValues == {3, 8, 15}

\* server_type of the job row: 'ollama' and 'gemini' have a client class, any
\* other string (the schedule form takes any) has none
ServerTypes == {"ollama", "other"}

Configs ==
    [ target : 1..MaxTarget,
      concurrency : 1..MaxConcurrency,
      max_candidates : {1, 3},
      min_score : MinScoreValues,
      require_incident : {TRUE},
      require_au : {TRUE},
      accept_all : AcceptAllValues,
      server_type : {"ollama"},
      discovery : {"results", "empty"} ]

\* the jobs whose whole life is followed, one worker at a time
RunConfigs ==
    [ target : 1..MaxTarget,
      concurrency : {1},
      max_candidates : {3},
      min_score : {8},
      require_incident : {TRUE, FALSE},
      require_au : {TRUE},
      accept_all : {"unbound", "false"},
      server_type : ServerTypes,
      discovery : DiscoveryValues ]

----------------------------------------------------------------------------
(* Job record *)

Terminal == {"canceled", "failed", "finalized"}
\* the statuses at which workers and the running loop stop
StopStatuses == {"canceled", "failed", "finalized", "finalizing"}

\* add_research_job: a new row is 'pending' with all counters 0
\* line 262: the dict `counters` that every progress event carries, of which
\* the model keeps the two entries that have a column in the row
NoCounts == [drafts |-> 0, errors |-> 0]

\* a counter of the stream that is not counted
BumpCounter_None(counters, key) == counters

\* counters[key] += 1
BumpCounter(counters, key) == [counters EXCEPT ![key] = @ + 1]

NewJob ==
    [ status |-> "pending", accepted_count |-> 0, drafts_count |-> 0,
      errors_count |-> 0, research_id |-> 0, finished |-> FALSE ]

\* text = None before the fetch
NoText == [id |-> 0, kw |-> FALSE, au |-> FALSE, score |-> 0]

\* the fields of a candidate before its extraction
NoFields == [fallback |-> FALSE, incident |-> FALSE]

IdleWorker ==
    [pc |-> "none", text |-> NoText, fields |-> NoFields, qa_ok |-> FALSE,
     dupe |-> FALSE, acc |-> 0]

InitJob(configs) ==
    /\ job = NewJob
    /\ drafts = << >>
    /\ reports = << >>
    /\ cfg \in configs
    /\ run = [ pc |-> "start", page_index |-> 0, min_score |-> cfg.min_score,
               total_seen |-> 0, seen |-> {}, stop |-> "", listed |-> << >>,
               rid |-> 0, llm |-> "", raised |-> "", counters |-> NoCounts ]
    /\ w = << >>
    /\ cancel_pc = ""

----------------------------------------------------------------------------
(* The page cache and the fetch of process_candidate (lines 566-642) *)

\* the URLs fetched: two spellings of one canonical URL
FetchUrls == { Url("a.au", "/news/1", ""), Url("a.au", "/news/1", "x") }

CacheKeys == {_canon_url(u) : u \in FetchUrls}
LowerKeys == {CanonLower(u) : u \in FetchUrls}

\* the page is served by the host whatever the case it is written in
Page(u) == CanonLower(u)

\* a text is 0 when empty ('' or None), else the number of the page version
\* it was extracted from; an ETag or Last-Modified is 0 when absent
NoRow == [present |-> FALSE, text |-> 0, etag |-> 0, lm |-> 0, until |-> 0]

NoResponse == [status |-> 0, text |-> 0, etag |-> 0, lm |-> 0]

\* the worker slots in which the fetches of the jobs overlap; a fetch takes
\* the first free one
Slots == {1, 2}

IdleFetch ==
    [ pc |-> "idle", url |-> Url("", "", ""), row |-> NoRow, text |-> 0,
      cond |-> [etag |-> 0, lm |-> 0], resp |-> NoResponse,
      bypass_cache |-> FALSE, cache_ttl_hours |-> 0,
      fresh |-> FALSE, expired |-> FALSE, reqs |-> 0 ]

InitFetch ==
    /\ cache = [k \in CacheKeys |-> NoRow]
    /\ now = 0
    /\ origin = [k \in LowerKeys |-> 1]
    /\ fj = [s \in Slots |-> IdleFetch]
    /\ begun = 0

\* cache_ttl_hours of the jobs, in hours
TTLValues == {1}

\* get_cached_page: the row of the key, or None
get_cached_page(c, k) == c[k]

\* refresh_cached_page: the row's cached_until becomes now + ttl
refresh_cached_page(c, k, t, ttl) ==
    IF c[k].present THEN [c EXCEPT ![k].until = t + ttl] ELSE c

\* upsert_cached_page: the row is replaced, valid until now + ttl (the
\* status, host and size it also stores are read by nothing)
upsert_cached_page(c, k, text, etag, lm, t, ttl) ==
    [c EXCEPT ![k] = [ present |-> TRUE, text |-> text,
                       etag |-> etag, lm |-> lm, until |-> t + ttl ]]

\* the expiry test with the comparison turned around
within_ttl_Inverted(row, t) == row.present /\ row.until < t

\* lines 598-607: cached_until >= utcnow()
within_ttl(row, t) == row.present /\ row.until >= t

\* the request headers without the validators
Validators_None(row) == [etag |-> 0, lm |-> 0]

\* lines 596-597 and 85-88: If-None-Match / If-Modified-Since from the row
Validators(row) ==
    IF row.present THEN [etag |-> row.etag, lm |-> row.lm] ELSE [etag |-> 0, lm |-> 0]

\* what the web server may answer to a GET of a page at version v, as
\* _http_get_text returns it: an exception or a non-200 status give no text
Responses(cond, v) ==
    {NoResponse, [NoResponse EXCEPT !.status = 500]}
    \cup {[NoResponse EXCEPT !.status = 304] : x \in {y \in {cond.etag, cond.lm} : y = v}}
    \cup {[status |-> 200, text |-> v, etag |-> h[1], lm |-> h[2]] :
             h \in {<<0, 0>>, <<v, 0>>, <<v, v>>}}

\* a 304 handled like any other answer: the row is replaced
Reuse304_Never(row, resp) == FALSE

\* line 620: status == 304 and cached_row
Reuse304(row, resp) == resp.status = 304 /\ row.present

\* process_candidate of a job reaches the fetch (line 566).  A job passes a
\* canonical URL through process_candidate once (seen set, lines 554-557), so
\* each fetch of the page is by another job, with that job's bypass_cache and
\* cache_ttl_hours; its in-memory _page_cache is keyed like the seen set and
\* filled only by a fetch of the key, so _cache_get (lines 570, 615) finds
\* nothing for the URL being fetched and the GET is always sent.
BeginFetch(j, u, bypass, ttl) ==
    /\ fj[j].pc = "idle"
    /\ \A k \in Slots : k < j => fj[k].pc # "idle"
    /\ begun < MaxJobs
    /\ begun' = begun + 1
    /\ fj' = [fj EXCEPT ![j] = [IdleFetch EXCEPT !.pc = "lookup", !.url = u,
                                   !.bypass_cache = bypass, !.cache_ttl_hours = ttl]]
    /\ UNCHANGED <<nonFetchVars, cache, now, origin>>

SendGet(f, cond) == [f EXCEPT !.pc = "get", !.cond = cond, !.reqs = @ + 1]

\* lines 568-574 and 591-618: the cache lookup, up to the GET being sent
Lookup(j) ==
    /\ fj[j].pc = "lookup"
    /\ LET f == fj[j]
           cu == _canon_url(f.url)
           row == get_cached_page(cache, cu)
           g == [f EXCEPT !.fresh = ~f.bypass_cache /\ cache[cu].present
                                     /\ cache[cu].until >= now,
                          !.expired = ~f.bypass_cache /\ cache[cu].present
                                       /\ cache[cu].until < now]
       IN  IF f.bypass_cache
             THEN fj' = [fj EXCEPT ![j] = SendGet(g, [etag |-> 0, lm |-> 0])]
           ELSE IF within_ttl(row, now)
             THEN fj' = [fj EXCEPT ![j] = [g EXCEPT !.pc = "refresh", !.row = row,
                                                    !.text = row.text]]
             ELSE fj' = [fj EXCEPT ![j] = SendGet([g EXCEPT !.row = row], Validators(row))]
    /\ UNCHANGED <<nonFetchVars, cache, now, origin, begun>>

\* lines 574-575 and 618-628: the answer arrives
Response(j) ==
    /\ fj[j].pc = "get"
    /\ LET f == fj[j] IN
       \E resp \in Responses(f.cond, origin[Page(f.url)]) :
         IF ~f.bypass_cache /\ Reuse304(f.row, resp)
           THEN fj' = [fj EXCEPT ![j].pc = "refresh", ![j].resp = resp,
                                 ![j].text = f.row.text]
           ELSE fj' = [fj EXCEPT ![j].pc = "upsert", ![j].resp = resp,
                                 ![j].text = resp.text]
    /\ UNCHANGED <<nonFetchVars, cache, now, origin, begun>>

\* lines 609-613 and 620-625
Refresh(j) ==
    /\ fj[j].pc = "refresh"
    /\ cache' = refresh_cached_page(cache, _canon_url(fj[j].url), now,
                                    fj[j].cache_ttl_hours)
    /\ fj' = [fj EXCEPT ![j] = IdleFetch]
    /\ UNCHANGED <<nonFetchVars, now, origin, begun>>

\* lines 576-589 and 629-642
Upsert(j) ==
    /\ fj[j].pc = "upsert"
    /\ LET f == fj[j] IN
       cache' = upsert_cached_page(cache, _canon_url(f.url), f.text,
                                   f.resp.etag, f.resp.lm, now, f.cache_ttl_hours)
    /\ fj' = [fj EXCEPT ![j] = IdleFetch]
    /\ UNCHANGED <<nonFetchVars, now, origin, begun>>

\* time passes
Tick ==
    /\ now < MaxClock
    /\ now' = now + 1
    /\ UNCHANGED <<nonFetchVars, cache, origin, fj, begun>>

\* a page changes on its server
OriginChange(k) ==
    /\ origin[k] < MaxVersion
    /\ origin' = [origin EXCEPT ![k] = @ + 1]
    /\ UNCHANGED <<nonFetchVars, cache, now, fj, begun>>

NextFetch ==
    \/ \E j \in Slots, u \in FetchUrls, b \in BOOLEAN, t \in TTLValues :
          BeginFetch(j, u, b, t)
    \/ \E j \in Slots : Lookup(j)
    \/ \E j \in Slots : Response(j)
    \/ \E j \in Slots : Refresh(j)
    \/ \E j \in Slots : Upsert(j)
    \/ Tick
    \/ \E k \in LowerKeys : OriginChange(k)

----------------------------------------------------------------------------
(* _rate_limit (lines 363-380) *)

\* the domains of the URLs (_domain_of: the netloc in lower case)
RateDomains == {"a.au", "b.com"}

RateTasks == 1..MaxRateTasks

\* per_domain_rps of the jobs: 0 (no limit), 0.00005, 0.0001 and 0.0002 per
\* second
RpsValues == {0, 1, 2, 4}

IdleTask == [pc |-> "idle", dom |-> "", wake |-> 0]

InitRate(rps) ==
    /\ per_domain_rps \in rps
    /\ mono = 0
    /\ domain_locks = [d \in RateDomains |-> 0]
    /\ domain_last = << >>
    /\ rt = [i \in RateTasks |-> IdleTask]

\* the interval of a rate without the clamp
min_interval_Unclamped(rps) == 4 \div rps

\* line 376: 1.0 / max(0.0001, per_domain_rps); a rate of one unit is one
\* pass in 20000 seconds, that is in 4 units of time
min_interval(rps) == 4 \div (IF rps > RpsClamp THEN rps ELSE RpsClamp)

\* line 375: domain_last.get(dom, 0.0)
LastOf(last, d) == IF d \in DOMAIN last THEN last[d] ELSE 0

\* line 380: domain_last[dom] = monotonic()
SetLast(last, d, t) ==
    [x \in DOMAIN last \cup {d} |-> IF x = d THEN t ELSE last[x]]

\* one lock for all the domains
LockOf_Global(d) == "a.au"

\* lines 369-372: a lock per domain
LockOf(d) == d

\* lines 364-368: a task calls _rate_limit for a URL of domain d; without a
\* limit it returns at once
EnterLimit(i, d) ==
    /\ rt[i].pc = "idle"
    /\ \A k \in RateTasks : k < i => rt[k].pc # "idle"
    /\ rt' = [rt EXCEPT ![i] = [IdleTask EXCEPT !.dom = d,
                  !.pc = IF per_domain_rps <= 0 THEN "done" ELSE "enter"]]
    /\ UNCHANGED <<nonRateVars, per_domain_rps, mono, domain_locks, domain_last>>

\* lines 373-380: the lock is free and taken; without a wait the pass is
\* complete at once, else the task sleeps holding the lock
Acquire(i) ==
    /\ rt[i].pc = "enter"
    /\ domain_locks[LockOf(rt[i].dom)] = 0
    /\ LET d == rt[i].dom
           wait == (LastOf(domain_last, d) + min_interval(per_domain_rps)) - mono
       IN  IF wait > 0
             THEN /\ rt' = [rt EXCEPT ![i].pc = "sleep", ![i].wake = mono + wait]
                  /\ domain_locks' = [domain_locks EXCEPT ![LockOf(d)] = i]
                  /\ domain_last' = domain_last
             ELSE /\ rt' = [rt EXCEPT ![i].pc = "done"]
                  /\ domain_locks' = domain_locks
                  /\ domain_last' = SetLast(domain_last, d, mono)
    /\ UNCHANGED <<nonRateVars, per_domain_rps, mono>>

\* lines 379-380: asyncio.sleep(wait) is over; the pass is complete and the
\* lock is released
Wake(i) ==
    /\ rt[i].pc = "sleep"
    /\ mono >= rt[i].wake
    /\ rt' = [rt EXCEPT ![i].pc = "done"]
    /\ domain_locks' = [domain_locks EXCEPT ![LockOf(rt[i].dom)] = 0]
    /\ domain_last' = SetLast(domain_last, rt[i].dom, mono)
    /\ UNCHANGED <<nonRateVars, per_domain_rps, mono>>

\* time passes
TickMono ==
    /\ mono < MaxMono
    /\ mono' = mono + 1
    /\ UNCHANGED <<nonRateVars, per_domain_rps, domain_locks, domain_last, rt>>

NextRate ==
    \/ \E i \in RateTasks, d \in RateDomains : EnterLimit(i, d)
    \/ \E i \in RateTasks : Acquire(i)
    \/ \E i \in RateTasks : Wake(i)
    \/ TickMono

\* lines 566-618: _rate_limit has returned (pc "done") and the request of
\* _http_get_text is in flight, for as long as the site takes; here it returns
\* and the task is over
HttpReturn(i) ==
    /\ rt[i].pc = "done"
    /\ rt' = [rt EXCEPT ![i] = [IdleTask EXCEPT !.pc = "fetched"]]
    /\ UNCHANGED <<nonRateVars, per_domain_rps, mono, domain_locks, domain_last>>

\* the limiter together with the fetches that follow it
NextSerial ==
    \/ \E i \in RateTasks, d \in RateDomains : EnterLimit(i, d)
    \/ \E i \in RateTasks : Acquire(i)
    \/ \E i \in RateTasks : Wake(i)
    \/ \E i \in RateTasks : HttpReturn(i)
    \/ TickMono

----------------------------------------------------------------------------
(* Source-free discovery (lines 481-515 and backend/discovery) *)

\* the sources of a job: two feeds, one sitemap domain, one crawled domain
DiscSources == {"feed1", "feed2", "sitemap", "crawl"}

\* the provider tasks, in the order in which lines 485-492 create them
Providers == <<"rss_provider", "sitemap_provider", "domain_crawler">>

\* the feeds or domains a provider is called with, in the order of its tasks
SourcesOf(p) ==
    CASE p = "rss_provider"     -> <<"feed1", "feed2">>
      [] p = "sitemap_provider" -> <<"sitemap">>
      [] OTHER                  -> <<"crawl">>

Item(u, t) == [url |-> u, title |-> t]

\* what a feed or a domain may list (after the recency and keyword filters)
LeafResults ==
    { << >>,
      << Item(Url("a.au", "/news/1", ""), "Breach") >>,
      << Item(Url("A.au", "/news/1", "x"), "Breach") >>,
      << Item(Url("b.com", "/news/2", ""), "Hack") >>,
      << Item(Url("a.au", "/news/1", ""), "Breach"),
         Item(Url("b.com", "/news/3", ""), "breach!") >> }

NoLeaf == [st |-> "pending", items |-> << >>]

InitDisc ==
    /\ leaf = [s \in DiscSources |-> NoLeaf]
    /\ pages = [k \in DOMAIN Providers |-> NoLeaf]
    /\ discovered = [pc |-> "gather", candidates |-> << >>]

\* _fetch_feed, _fetch_sitemap and _crawl_domain_start: the entries of the
\* source, or [] when the request raises or the answer is not a 200
FetchSource(s) ==
    /\ leaf[s].st = "pending"
    /\ \E ok \in BOOLEAN, items \in LeafResults :
         leaf' = [leaf EXCEPT ![s] = IF ok THEN [st |-> "ok", items |-> items]
                                          ELSE [st |-> "failed", items |-> << >>]]
    /\ UNCHANGED <<pages, discovered, nonDiscVars>>

\* a merge that compares the canonical URLs as they are written
RECURSIVE MergeItems_CaseSensitive(_, _)
MergeItems_CaseSensitive(items, acc) ==
    IF items = << >> THEN acc
    ELSE LET it == Head(items)
             cu == _canon_url(it.url)
         IN  IF \E k \in DOMAIN acc : _canon_url(acc[k].url) = cu
               THEN MergeItems_CaseSensitive(Tail(items), acc)
               ELSE MergeItems_CaseSensitive(Tail(items),
                               Append(acc, Item(Url(cu.host, cu.path, ""), it.title)))

\* the entries with a URL not met before, compared as canonical URLs in lower
\* case, appended to acc with the canonical URL (the loops of the three
\* discover functions and of lines 496-507)
RECURSIVE MergeItems(_, _)
MergeItems(items, acc) ==
    IF items = << >> THEN acc
    ELSE LET it == Head(items)
             cu == _canon_url(it.url)
         IN  IF \E k \in DOMAIN acc : CanonLower(acc[k].url) = CanonLower(cu)
               THEN MergeItems(Tail(items), acc)
               ELSE MergeItems(Tail(items),
                               Append(acc, Item(Url(cu.host, cu.path, ""), it.title)))

\* the pages of the sources of a provider, in the order of its tasks
RECURSIVE LeafItems(_)
LeafItems(ss) ==
    IF ss = << >> THEN << >> ELSE leaf[Head(ss)].items \o LeafItems(Tail(ss))

\* rss_provider.discover, sitemap_provider.discover, domain_crawler.discover
\* return: the task of provider k ends with the merged entries of its sources
Discover(k) ==
    /\ pages[k].st = "pending"
    /\ \A i \in DOMAIN SourcesOf(Providers[k]) :
           leaf[SourcesOf(Providers[k])[i]].st # "pending"
    /\ pages' = [pages EXCEPT ![k] =
                   [st |-> "ok", items |-> MergeItems(LeafItems(SourcesOf(Providers[k])), << >>)]]
    /\ UNCHANGED <<leaf, discovered, nonDiscVars>>

\* a provider task ends with an exception (its HTTP client cannot be made, or
\* anything else raises outside the per-source handlers)
DiscoverRaises(k) ==
    /\ pages[k].st = "pending"
    /\ pages' = [pages EXCEPT ![k] = [st |-> "raised", items |-> << >>]]
    /\ UNCHANGED <<leaf, discovered, nonDiscVars>>

\* gather without return_exceptions: the first exception leaves the try, and
\* line 515 sets discovered_candidates to []
PageItems_NoIsolation(k) ==
    IF \E j \in DOMAIN pages : pages[j].st = "raised" THEN << >> ELSE pages[k].items

\* lines 493 and 496-498: the page of provider k as the merge loop takes it:
\* an exception returned by gather is skipped
PageItems(k) == IF pages[k].st = "raised" THEN << >> ELSE pages[k].items

\* lines 493-507: gather has returned, the pages are merged in task order
MergePages ==
    /\ discovered.pc = "gather"
    /\ \A k \in DOMAIN pages : pages[k].st # "pending"
    /\ discovered' =
         [pc |-> "merged",
          candidates |-> MergeItems(PageItems(1) \o PageItems(2) \o PageItems(3), << >>)]
    /\ UNCHANGED <<leaf, pages, nonDiscVars>>

NextDisc ==
    \/ \E s \in DiscSources : FetchSource(s)
    \/ \E k \in DOMAIN Providers : Discover(k)
    \/ \E k \in DOMAIN Providers : DiscoverRaises(k)
    \/ MergePages

----------------------------------------------------------------------------
(* URL canonicalization on strings (_canon_url, lines 26-31, and *)
(* discovery/utils.canon_url, lines 19-27)                        *)

\* A URL string is a sequence of tokens: the characters ":", "/", "?" and "#",
\* and words of letters and dots.
Words == {"http", "HTTP", "ex.com", "Ex.com", "a", "x", "f"}

\* str.lower() on a word
LowerWord(t) ==
    CASE t = "HTTP"   -> "http"
      [] t = "Ex.com" -> "ex.com"
      [] OTHER        -> t

\* the strings canonicalization is applied to: an optional scheme with its
\* colon, an optional "//", an optional host, a path, a query and a fragment
UrlStrings ==
    { sch \o sl \o h \o pa \o q \o fr :
        sch \in {<< >>, <<"http", ":">>, <<"HTTP", ":">>},
        sl \in {<< >>, <<"/", "/">>},
        h \in {<< >>, <<"ex.com">>, <<"Ex.com">>},
        pa \in {<< >>, <<"/">>, <<"/", "a">>, <<"/", "a", "/">>},
        q \in {<< >>, <<"?", "x">>},
        fr \in {<< >>, <<"#", "f">>} }

\* str.find for the first character of a set: its position, or 0
FirstIn(s, T) ==
    IF \E i \in DOMAIN s : s[i] \in T
      THEN CHOOSE i \in DOMAIN s : s[i] \in T /\ \A j \in 1..(i - 1) : s[j] \notin T
      ELSE 0

From(s, i) == SubSeq(s, i, Len(s))

\* urllib.parse.urlparse: the scheme (lower-cased) is what precedes the first
\* ":" when that is a non-empty run of scheme characters; the netloc follows
\* a leading "//" up to the first "/", "?" or "#"; the fragment and the query
\* are cut off the rest, which is the path
urlparse(s) ==
    LET c == FirstIn(s, {":"})
        hasScheme == c > 1 /\ \A j \in 1..(c - 1) : s[j] \in Words
        scheme == IF hasScheme THEN [j \in 1..(c - 1) |-> LowerWord(s[j])] ELSE << >>
        rest == IF hasScheme THEN From(s, c + 1) ELSE s
        hasNet == Len(rest) >= 2 /\ rest[1] = "/" /\ rest[2] = "/"
        after == From(rest, 3)
        d == FirstIn(after, {"/", "?", "#"})
        netloc == IF ~hasNet THEN << >>
                  ELSE IF d = 0 THEN after ELSE SubSeq(after, 1, d - 1)
        rest2 == IF ~hasNet THEN rest
                 ELSE IF d = 0 THEN << >> ELSE From(after, d)
        h == FirstIn(rest2, {"#"})
        rest3 == IF h = 0 THEN rest2 ELSE SubSeq(rest2, 1, h - 1)
        q == FirstIn(rest3, {"?"})
        path == IF q = 0 THEN rest3 ELSE SubSeq(rest3, 1, q - 1)
    IN  [scheme |-> scheme, netloc |-> netloc, path |-> path]

\* str.rstrip("/")
RECURSIVE rstrip(_)
rstrip(s) ==
    IF s # << >> /\ s[Len(s)] = "/" THEN rstrip(SubSeq(s, 1, Len(s) - 1)) ELSE s

\* research_pipeline._canon_url on a string:
\* f"{pu.scheme}://{pu.netloc}{pu.path}".rstrip("/")
CanonUrlText(s) ==
    LET pu == urlparse(s)
    IN  rstrip(pu.scheme \o <<":", "/", "/">> \o pu.netloc \o pu.path)

\* discovery/utils.canon_url: a string without a scheme is returned as it is
canon_url(s) ==
    IF urlparse(s).scheme = << >> THEN s ELSE CanonUrlText(s)

CanonFunctions == {"_canon_url", "canon_url"}

Canonicalize(fn, s) == IF fn = "_canon_url" THEN CanonUrlText(s) ELSE canon_url(s)

InitCanon ==
    canon = [fn |-> "_canon_url", url |-> << >>, pc |-> "idle", once |-> << >>,
             twice |-> << >>]

\* the function is applied to the string
CanonOnce ==
    /\ canon.pc = "in"
    /\ canon' = [canon EXCEPT !.pc = "once", !.once = Canonicalize(canon.fn, canon.url)]
    /\ UNCHANGED nonCanonVars

\* the function is applied to its own result
CanonTwice ==
    /\ canon.pc = "once"
    /\ canon' = [canon EXCEPT !.pc = "twice", !.twice = Canonicalize(canon.fn, canon.once)]
    /\ UNCHANGED nonCanonVars

NextCanon == CanonOnce \/ CanonTwice

----------------------------------------------------------------------------
\* fetch_page in search mode (research_pipeline.py lines 517-544): one call
\* per page of the loop, SerpAPI first and Tavily after it.

\* lines 296-297 and research.py lines 28-29: the job's two switches and the
\* two API keys of the environment
SearchConfigs ==
    [ use_serpapi : BOOLEAN, use_tavily : BOOLEAN,
      serpapi_api_key : BOOLEAN, tavily_api_key : BOOLEAN ]

\* the switches at their defaults in an environment without keys
NoSearchKeys ==
    [ use_serpapi |-> TRUE, use_tavily |-> TRUE,
      serpapi_api_key |-> FALSE, tavily_api_key |-> FALSE ]

\* what a call of a search backend does: results, an empty list, an exception
BackendOutcomes == {"results", "empty", "raised"}

InitSearch(configs) ==
    \E c \in configs :
        search = [ cfg |-> c, pc |-> "serpapi", page_index |-> 0, serpapi |-> "none",
                   tavily |-> "none", results |-> << >> ]

\* results.extend(...) of lines 535 and 541: a backend's results are one item
\* that names it
Extend(results, backend, outcome) ==
    IF outcome = "results" THEN Append(results, backend) ELSE results

\* lines 531-537
SearchSerpapi ==
    /\ search.pc = "serpapi"
    /\ IF search.cfg.use_serpapi /\ search.cfg.serpapi_api_key
         THEN \E o \in BackendOutcomes :
                search' = [search EXCEPT !.pc = "tavily", !.serpapi = o,
                                         !.results = Extend(search.results, "serpapi", o)]
         ELSE search' = [search EXCEPT !.pc = "tavily"]
    /\ UNCHANGED nonSearchVars

\* lines 538-543: the condition reads the switch and the key, not the results
SearchTavily ==
    /\ search.pc = "tavily"
    /\ IF search.cfg.use_tavily /\ search.cfg.tavily_api_key
         THEN \E o \in BackendOutcomes :
                search' = [search EXCEPT !.pc = "return", !.tavily = o,
                                         !.results = Extend(search.results, "tavily", o)]
         ELSE search' = [search EXCEPT !.pc = "return"]
    /\ UNCHANGED nonSearchVars

\* line 544 and the loop's next call (lines 800 and 847)
ReturnResults ==
    /\ search.pc = "return"
    /\ search.page_index < MaxPages
    /\ search' = [search EXCEPT !.pc = "serpapi", !.page_index = search.page_index + 1,
                                !.serpapi = "none", !.tavily = "none", !.results = << >>]
    /\ UNCHANGED nonSearchVars

NextSearch == SearchSerpapi \/ SearchTavily \/ ReturnResults

----------------------------------------------------------------------------
\* The domain crawl (discovery/domain_crawler.py lines 12-46) and robots.txt
\* (discovery/utils.py lines 72-102).  The clock is `now`, in hours.

CrawlDomains == {"a.au", "b.com"}

\* cache_ttl_seconds = 3600, in hours
RobotsTtl == 1

\* what extract_links finds on the start page of a domain
HomeLinks ==
    << Url("a.au", "/news/1", ""), Url("A.au", "/news/1", "x"),
       Url("b.com", "/news/2", ""), Url("a.au", "/tag/x", ""),
       Url("a.au", "/private/3", ""), Url("a.au", "/news/4", "") >>

\* utils.same_domain: the host, in lower case, is the domain (a subdomain
\* counts too, and none is among the links)
same_domain(u, d) == LowerHost(u.host) = d

\* utils.looks_like_article: no media extension, no /tag/, /category/, ...
looks_like_article(u) == u.path # "/tag/x"

\* the rule sets a robots.txt may hold: the paths it disallows
RuleSets == { {}, {"/private/3"} }

\* RobotFileParser.can_fetch
can_fetch(rules, path) == path \notin rules

\* what the GET of robots.txt does: a 200 with rules, another status, an
\* exception
RobotsOutcomes == {"ok", "status", "raised"}

NoRobots == [stored |-> FALSE, at |-> 0, rules |-> {}]

\* the parameters of the crawl tasks: a domain and max_pages for each
CrawlParams == [domain : CrawlDomains, max_pages : 0..MaxCrawlPages]

NewCrawl(p) ==
    [ pc |-> "start", domain |-> p.domain, max_pages |-> p.max_pages,
      links |-> << >>, seen |-> {}, results |-> << >>, at |-> 0 ]

InitCrawl(tasks) ==
    /\ ct \in tasks
    /\ _robots_cache = [d \in CrawlDomains |-> NoRobots]

\* a cache that is never used
stale_Always(rec, t) == TRUE

\* line 81: no record, or one older than the TTL
stale(rec, t) == ~rec.stored \/ t - rec.at > RobotsTtl

\* lines 18-20 and 42-45: the GET of the start page; a status other than 200
\* or an exception ends the crawl of the domain with nothing
CrawlStart(t) ==
    /\ ct[t].pc = "start"
    /\ \E ok \in BOOLEAN :
         ct' = [ct EXCEPT ![t].pc = IF ok THEN "loop" ELSE "done",
                          ![t].links = IF ok THEN HomeLinks ELSE << >>]
    /\ UNCHANGED <<_robots_cache, now, nonCrawlVars>>

\* lines 37-40: the URL is kept, and the loop ends when the budget is reached
Keep(c, cu) ==
    LET results == Append(c.results, cu)
    IN  [c EXCEPT !.seen = @ \cup {CanonLower(cu)}, !.results = results,
                  !.links = Tail(@),
                  !.pc = IF Len(results) >= c.max_pages THEN "done" ELSE "loop"]

Drop(c) == [c EXCEPT !.links = Tail(@), !.pc = "loop"]

\* lines 21-36 and utils 77-82, 95-99: the next link; one that passes the
\* filters is checked against the cached rules, or robots.txt is requested
CrawlLink(t) ==
    /\ ct[t].pc = "loop"
    /\ LET c == ct[t]
       IN  IF c.links = << >>
             THEN ct' = [ct EXCEPT ![t].pc = "done"]
           ELSE LET cu == Url(Head(c.links).host, Head(c.links).path, "")
                    rec == _robots_cache[c.domain]
                IN  IF \/ CanonLower(cu) \in c.seen
                       \/ ~same_domain(cu, c.domain)
                       \/ ~looks_like_article(cu)
                      THEN ct' = [ct EXCEPT ![t] = Drop(c)]
                    ELSE IF stale(rec, now)
                      THEN ct' = [ct EXCEPT ![t].pc = "robots", ![t].at = now]
                    ELSE IF can_fetch(rec.rules, cu.path)
                      THEN ct' = [ct EXCEPT ![t] = Keep(c, cu)]
                    ELSE ct' = [ct EXCEPT ![t] = Drop(c)]
    /\ UNCHANGED <<_robots_cache, now, nonCrawlVars>>

\* utils 83-99: the answer to the GET of robots.txt: the rules, or none when
\* the status is not 200 or the request raised, are stored with the time at
\* which the call began, and the link is kept if they allow its path
RobotsResponse(t) ==
    /\ ct[t].pc = "robots"
    /\ \E o \in RobotsOutcomes, r \in RuleSets :
         LET c == ct[t]
             cu == Url(Head(c.links).host, Head(c.links).path, "")
             rules == IF o = "ok" THEN r ELSE {}
         IN  /\ o # "ok" => r = {}
             /\ _robots_cache' = [_robots_cache EXCEPT ![c.domain] =
                                    [stored |-> TRUE, at |-> c.at, rules |-> rules]]
             /\ ct' = [ct EXCEPT ![t] = IF can_fetch(rules, cu.path)
                                          THEN Keep(c, cu) ELSE Drop(c)]
    /\ UNCHANGED <<now, nonCrawlVars>>

CrawlTasks == {1, 2}

NextCrawl ==
    \/ \E t \in CrawlTasks : CrawlStart(t)
    \/ \E t \in CrawlTasks : CrawlLink(t)
    \/ \E t \in CrawlTasks : RobotsResponse(t)
    \/ Tick

FetchConfig ==
    [ target |-> 1, concurrency |-> 1, max_candidates |-> 3, min_score |-> 30,
      require_incident |-> TRUE, require_au |-> TRUE, accept_all |-> "false",
      server_type |-> "ollama", discovery |-> "results" ]

InitFetchSpec == InitJob({FetchConfig}) /\ InitFetch /\ InitRate({4}) /\ InitDisc /\ InitCrawl({<< >>}) /\ InitSearch({NoSearchKeys}) /\ InitCanon

SpecFetch == InitFetchSpec /\ [][NextFetch]_vars

InitRateSpec == InitJob({FetchConfig}) /\ InitFetch /\ InitRate(RpsValues) /\ InitDisc /\ InitCrawl({<< >>}) /\ InitSearch({NoSearchKeys}) /\ InitCanon

SpecRate == InitRateSpec /\ [][NextRate]_vars

InitDiscSpec == InitJob({FetchConfig}) /\ InitFetch /\ InitRate({4}) /\ InitDisc /\ InitCrawl({<< >>}) /\ InitSearch({NoSearchKeys}) /\ InitCanon

SpecDisc == InitDiscSpec /\ [][NextDisc]_vars

InitSerialSpec == InitJob({FetchConfig}) /\ InitFetch /\ InitRate({4}) /\ InitDisc /\ InitCrawl({<< >>}) /\ InitSearch({NoSearchKeys}) /\ InitCanon

SpecSerial == InitSerialSpec /\ [][NextSerial]_vars

InitSearchSpec ==
    InitJob({FetchConfig}) /\ InitFetch /\ InitRate({4}) /\ InitDisc /\ InitCanon
      /\ InitCrawl({<< >>}) /\ InitSearch(SearchConfigs)

SpecSearch == InitSearchSpec /\ [][NextSearch]_vars

InitCrawlSpec ==
    InitJob({FetchConfig}) /\ InitFetch /\ InitRate({4}) /\ InitDisc /\ InitCanon
      /\ InitSearch({NoSearchKeys})
      /\ InitCrawl({ <<NewCrawl(p), NewCrawl(q)>> : p \in CrawlParams, q \in CrawlParams })

SpecCrawl == InitCrawlSpec /\ [][NextCrawl]_vars

InitCanonSpec ==
    /\ InitJob({FetchConfig}) /\ InitFetch /\ InitRate({4}) /\ InitDisc /\ InitCrawl({<< >>}) /\ InitSearch({NoSearchKeys})
    /\ \E fn \in CanonFunctions, u \in UrlStrings :
         canon = [fn |-> fn, url |-> u, pc |-> "in", once |-> << >>, twice |-> << >>]

SpecCanon == InitCanonSpec /\ [][NextCanon]_vars

Init == InitJob(Configs) /\ InitFetch /\ InitRate({4}) /\ InitDisc /\ InitCrawl({<< >>}) /\ InitSearch({NoSearchKeys}) /\ InitCanon

----------------------------------------------------------------------------
(* run_research_job *)

\* job row updates (update_research_job is one UPDATE statement)
SetStatus(j, s) == [j EXCEPT !.status = s]

\* lines 256-263: the row is set to 'running' with accepted_count = 0
Start ==
    /\ run.pc = "start"
    /\ job' = [job EXCEPT !.status = "running", !.accepted_count = 0]
    /\ run' = [run EXCEPT !.pc = "llm"]
    /\ UNCHANGED <<drafts, reports, w, cfg, cancel_pc, nonJobVars>>

\* lines 267-276: what building the model client may give: for 'ollama' and
\* 'gemini' the client, or an exception (no such server row, import or
\* constructor error); for any other server_type neither branch runs and llm
\* stays None
LLMOutcomes(server_type) ==
    IF server_type = "ollama" THEN {"client", "raise"} ELSE {"none"}

\* lines 265-280
BuildLLM ==
    /\ run.pc = "llm"
    /\ \E out \in LLMOutcomes(cfg.server_type) :
         IF out = "raise"
           THEN /\ run' = [run EXCEPT !.pc = "done", !.raised = "llm"]
                /\ job' = [job EXCEPT !.status = "failed", !.finished = TRUE]
           ELSE /\ run' = [run EXCEPT !.pc = "loop", !.llm = out]
                /\ job' = job
    /\ UNCHANGED <<drafts, reports, w, cfg, cancel_pc, nonJobVars>>

\* the tasks created for a page, one per candidate that _is_article_url keeps
NewTasks(page) == [i \in 1..Len(page) |-> [IdleWorker EXCEPT !.pc = "wait"]]

\* the stop conditions without `if not page: break`
LoopStop_NoEmptyPage(cur, total_seen, page) ==
    IF cur.status \in StopStatuses THEN "status"
    ELSE IF cur.accepted_count >= cfg.target THEN "target"
    ELSE IF total_seen >= cfg.max_candidates THEN "budget"
    ELSE ""

\* lines 799-812: the stop conditions of the running loop, in the code's order
LoopStop(cur, total_seen, page) ==
    IF cur.status \in StopStatuses THEN "status"
    ELSE IF cur.accepted_count >= cfg.target THEN "target"
    ELSE IF total_seen >= cfg.max_candidates THEN "budget"
    ELSE IF page = << >> THEN "empty"
    ELSE ""

\* lines 799-838: one pass of the loop head, up to the creation of the tasks
LoopHead ==
    /\ run.pc = "loop"
    /\ LET page == fetch_page(run.page_index)
           stop == LoopStop(job, run.total_seen, page)
       IN  IF stop # ""
             THEN /\ run' = [run EXCEPT !.pc = "fin1", !.stop = stop]
                  /\ w' = w
             ELSE /\ run' = [run EXCEPT !.pc = "gather"]
                  /\ w' = NewTasks(page)
    /\ UNCHANGED <<job, drafts, reports, cfg, cancel_pc, nonJobVars>>

AllDone == \A i \in DOMAIN w : w[i].pc = "done"

\* the adaptive step without its guard dynamic_min_score > 0.5
Relaxed_NoGuard(cur, score) ==
    IF cur.accepted_count = 0
      THEN IF score - ScoreStep > ScoreFloor THEN score - ScoreStep ELSE ScoreFloor
      ELSE score

\* lines 843-845: the adaptive step, taken when nothing is accepted yet
Relaxed(cur, score) ==
    IF cur.accepted_count = 0 /\ score > ScoreFloor
      THEN IF score - ScoreStep > ScoreFloor THEN score - ScoreStep ELSE ScoreFloor
      ELSE score

\* line 847: page_index += 1; fetch_page answers every index from MaxPages on
\* alike, so the index is followed up to MaxPages
NextPageIndex(k) == IF k >= MaxPages THEN k ELSE k + 1

\* lines 839-847: gather returned; adaptive relaxation; next page
Gather ==
    /\ run.pc = "gather"
    /\ AllDone
    /\ run' = [run EXCEPT !.pc = "loop",
                          !.min_score = Relaxed(job, run.min_score),
                          !.page_index = NextPageIndex(run.page_index)]
    /\ w' = << >>
    /\ UNCHANGED <<job, drafts, reports, cfg, cancel_pc, nonJobVars>>

\* lines 850-852
Finalizing ==
    /\ run.pc = "fin1"
    /\ job' = SetStatus(job, "finalizing")
    /\ run' = [run EXCEPT !.pc = "fin2"]
    /\ UNCHANGED <<drafts, reports, w, cfg, cancel_pc, nonJobVars>>

OkDrafts(ds) == SelectSeq(ds, LAMBDA d : d.qa_status = "ok")

\* database.list_research_drafts_full: the rows of the job, ORDER BY id ASC
\* (the AUTOINCREMENT id is the position in the order of the INSERTs)
list_research_drafts_full(ds) ==
    [i \in 1..Len(ds) |-> [id |-> i, qa_status |-> ds[i].qa_status,
                           markdown_snippet |-> ds[i].markdown_snippet]]

\* the stored snippets go into the report as they are
Renumber_Keep(sn, i) == sn

\* line 889: re.sub(r"^##\s*\d+\.", f"## {i}.", sn): the number of the
\* snippet's heading becomes i
Renumber(sn, i) == [sn EXCEPT !.number = i]

\* lines 868-892: the text of the report: the summary's "- Incidents: n" and
\* one renumbered snippet per listed 'ok' draft, in the order of the listing
final_text(ok) ==
    [ incidents |-> Len(ok),
      sections |-> [i \in 1..Len(ok) |-> Renumber(ok[i].markdown_snippet, i)] ]

\* lines 853-892: the drafts are listed and the report text is built; the
\* listing is outside every try, so an exception of it ends run_research_job
\* with the row as it is
BuildReport ==
    /\ run.pc = "fin2"
    /\ \E ok \in BOOLEAN :
         IF ok
           THEN run' = [run EXCEPT !.pc = "fin3", !.listed = OkDrafts(list_research_drafts_full(drafts))]
           ELSE run' = [run EXCEPT !.pc = "done", !.raised = "list"]
    /\ UNCHANGED <<job, drafts, reports, w, cfg, cancel_pc, nonJobVars>>

\* lines 893-894 and 899-902: add_research stores the report, or raises and
\* the row is set to 'failed'
SaveReport ==
    /\ run.pc = "fin3"
    /\ \E ok \in BOOLEAN :
         IF ok
           THEN /\ reports' = Append(reports, final_text(run.listed))
                /\ run' = [run EXCEPT !.pc = "fin4", !.rid = Len(reports) + 1]
                /\ job' = job
           ELSE /\ reports' = reports
                /\ run' = [run EXCEPT !.pc = "done", !.raised = "save"]
                /\ job' = SetStatus(job, "failed")
    /\ UNCHANGED <<drafts, w, cfg, cancel_pc, nonJobVars>>

\* an UPDATE of the status alone
MarkFinalized_StatusOnly(row, rid) ==
    [row EXCEPT !.status = "finalized"]

\* line 895: one UPDATE statement sets status, research_id and finished_at
MarkFinalized(row, rid) ==
    [row EXCEPT !.status = "finalized", !.research_id = rid, !.finished = TRUE]

\* lines 895 and 899-902: the row is set to 'finalized' with the link and
\* finished_at in one UPDATE, or the UPDATE raises and the row is set to 'failed'
Finalized ==
    /\ run.pc = "fin4"
    /\ \E ok \in BOOLEAN :
         IF ok
           THEN /\ job' = MarkFinalized(job, run.rid)
                /\ run' = [run EXCEPT !.pc = "done"]
           ELSE /\ job' = SetStatus(job, "failed")
                /\ run' = [run EXCEPT !.pc = "done", !.raised = "link"]
    /\ UNCHANGED <<drafts, reports, w, cfg, cancel_pc, nonJobVars>>

----------------------------------------------------------------------------
(* _run and process_candidate, one task per candidate of the page *)

Cand(i) == fetch_page(run.page_index)[i]

\* the permits of asyncio.Semaphore(concurrency) that are taken
InFlight == Cardinality({i \in DOMAIN w : w[i].pc \notin {"wait", "done"}})

SetPc(i, pc) == [w EXCEPT ![i].pc = pc]

\* tasks enter the block whatever the number of permits taken
PermitFree_Always(taken) == TRUE

\* lines 797 and 826: `async with sem` lets a task in while fewer than
\* `concurrency` tasks are inside the block; the permit goes back when the
\* block is left, by return or by exception
PermitFree(taken) == taken < cfg.concurrency

\* the admission without the seen set
Admit_NoSeen(cur, total_seen, seen, u) ==
    /\ cur.accepted_count < cfg.target
    /\ total_seen < cfg.max_candidates

\* an admission without the candidate budget
Admit_NoBudget(cur, total_seen, seen, u) ==
    /\ cur.accepted_count < cfg.target
    /\ CanonLower(u) \notin seen

\* lines 826-832 and 548-557: the permit is taken, the target is checked on a
\* fresh read of the row, then budget and seen set decide whether to go on
Admit(cur, total_seen, seen, u) ==
    /\ cur.accepted_count < cfg.target
    /\ total_seen < cfg.max_candidates
    /\ CanonLower(u) \notin seen

Queue(i) ==
    /\ w[i].pc = "wait"
    /\ PermitFree(InFlight)
    /\ IF Admit(job, run.total_seen, run.seen, Cand(i).url)
         THEN /\ run' = [run EXCEPT !.seen = @ \cup {CanonLower(Cand(i).url)},
                                    !.total_seen = @ + 1]
              /\ w' = SetPc(i, "status")
         ELSE /\ run' = run
              /\ w' = SetPc(i, "done")
    /\ UNCHANGED <<job, drafts, reports, cfg, cancel_pc, nonJobVars>>

\* the check before the fetch without its status test
MayFetch_NoStatus(cur) == cur.accepted_count < cfg.target

\* lines 558-565: the status and the target are checked before the fetch
MayFetch(cur) == cur.status \notin StopStatuses /\ cur.accepted_count < cfg.target

CheckStatus(i) ==
    /\ w[i].pc = "status"
    /\ w' = SetPc(i, IF MayFetch(job) THEN "fetch" ELSE "done")
    /\ UNCHANGED <<job, drafts, reports, run, cfg, cancel_pc, nonJobVars>>

\* lines 566-652: the fetch yields no text (a failure) or the page's text
Fetch(i) ==
    /\ w[i].pc = "fetch"
    /\ \/ /\ w' = SetPc(i, "errinc")
          /\ run' = [run EXCEPT !.counters = BumpCounter(@, "errors")]
       \/ /\ \E c \in Contents : w' = [w EXCEPT ![i].pc = "extract", ![i].text = c]
          /\ run' = run
    /\ UNCHANGED <<job, drafts, reports, cfg, cancel_pc, nonJobVars>>

\* the UPDATE with the drafts delta left out
increment_errors_only(j, dd, de) == [j EXCEPT !.errors_count = @ + de]

\* the UPDATE with the errors delta left out
increment_drafts_only(j, dd, de) == [j EXCEPT !.drafts_count = @ + dd]

\* increment_research_job_counts: one UPDATE, col = col + delta
increment_research_job_counts(j, dd, de) ==
    [j EXCEPT !.drafts_count = @ + dd, !.errors_count = @ + de]

\* lines 643-649
CountError(i) ==
    /\ w[i].pc = "errinc"
    /\ job' = increment_research_job_counts(job, 0, 1)
    /\ w' = SetPc(i, "done")
    /\ UNCHANGED <<drafts, reports, run, cfg, cancel_pc, nonJobVars>>

\* lines 731-738: the gate on region, score and the extractor's classification
Gate(c, u, incident, min_score) ==
    IF cfg.accept_all # "true" /\ cfg.require_au /\ ~(c.au \/ UrlHasAu(u)) THEN FALSE
    ELSE IF cfg.accept_all # "true"
            /\ (c.score < min_score \/ (cfg.require_incident /\ ~incident)) THEN FALSE
    ELSE TRUE

\* a fallback that reports an incident
FallbackFields_Incident == [fallback |-> TRUE, incident |-> TRUE]

\* lines 210-219: the fallback of the extraction: the start of the page as the
\* summary, the other fields empty, incident False
FallbackFields == [fallback |-> TRUE, incident |-> FALSE]

\* lines 138-219: what _extract_fields_with_llm may return: the model's answer
\* with its classification, or, when the call raises or the answer does not
\* parse (always, without a client), the fallback
_extract_fields_with_llm(llm) ==
    IF llm = "client"
      THEN {[fallback |-> FALSE, incident |-> b] : b \in BOOLEAN} \cup {FallbackFields}
      ELSE {FallbackFields}

\* lines 662-738: extraction (the model's classification, or the fallback with
\* incident = False), the incident keyword filter, scoring and gating
\* an exception that ends every task of the page
CaughtBy_run_CancelAll(tasks, i, fields) ==
    [k \in DOMAIN tasks |->
        IF k = i THEN [tasks[k] EXCEPT !.pc = "done", !.fields = fields]
        ELSE [tasks[k] EXCEPT !.pc = "done"]]

\* lines 827-834: an exception of process_candidate is caught by the except of
\* _run, inside the task that raised it, and logged; the task ends
CaughtBy_run(tasks, i, fields) ==
    [tasks EXCEPT ![i].pc = "done", ![i].fields = fields]

Extract(i) ==
    /\ w[i].pc = "extract"
    /\ \E fields \in _extract_fields_with_llm(run.llm) :
         IF cfg.require_incident /\ ~w[i].text.kw
           THEN w' = [w EXCEPT ![i].pc = "done", ![i].fields = fields]
         ELSE IF cfg.accept_all = "unbound"
           THEN w' = CaughtBy_run(w, i, fields)
         ELSE w' = [w EXCEPT ![i].pc = "dup", ![i].fields = fields,
                             ![i].qa_ok = Gate(w[i].text, Cand(i).url, fields.incident,
                                               run.min_score)]
    /\ UNCHANGED <<job, drafts, reports, run, cfg, cancel_pc, nonJobVars>>

\* line 745: a prior draft matches on source_url, title or canonical_url; the
\* rows of list_research_drafts_full carry no content_hash, so d.get('content_hash')
\* is None and never equals the hash
IsDupe(existing, c) ==
    \E k \in DOMAIN existing :
        \/ existing[k].source_url = c.url
        \/ existing[k].title = c.title
        \/ existing[k].canonical_url = _canon_url(c.url)

\* lines 740-749
DupCheck(i) ==
    /\ w[i].pc = "dup"
    /\ LET dupe == IsDupe(drafts, Cand(i))
       IN  w' = [w EXCEPT ![i].pc = "readacc", ![i].dupe = dupe,
                          ![i].qa_ok = w[i].qa_ok /\ ~dupe]
    /\ UNCHANGED <<job, drafts, reports, run, cfg, cancel_pc, nonJobVars>>

\* line 750
ReadAccepted(i) ==
    /\ w[i].pc = "readacc"
    /\ w' = [w EXCEPT ![i].pc = "insert", ![i].acc = job.accepted_count]
    /\ UNCHANGED <<job, drafts, reports, run, cfg, cancel_pc, nonJobVars>>

\* lines 235-253: the snippet of a draft: the heading "## idx. title" and the
\* "- Source: [title](url)" line (the other lines play no part here)
_build_markdown_snippet(idx, title, source_url) ==
    [ number |-> idx, title |-> title, source |-> source_url ]

\* lines 753-770 and add_research_draft: the INSERT names no is_duplicate,
\* qa_message or link_ok column, so the row keeps their defaults
NewDraft(c, text, qa_ok, acc) ==
    [ source_url |-> c.url, canonical_url |-> _canon_url(c.url),
      title |-> c.title, title_key |-> _title_key(c.title),
      content_hash |-> _content_hash(text),
      qa_status |-> IF qa_ok THEN "ok" ELSE "failed",
      is_duplicate |-> 0,
      markdown_snippet |-> _build_markdown_snippet(acc + 1, c.title, c.url) ]

\* an INSERT OR REPLACE that overwrites the latest row
add_research_draft_Replace(rows, d) ==
    IF rows = << >> THEN << d >> ELSE [rows EXCEPT ![Len(rows)] = d]

\* database.add_research_draft: one INSERT, the new row gets the next id
add_research_draft(rows, d) == Append(rows, d)

AddDraft(i) ==
    /\ w[i].pc = "insert"
    /\ drafts' = add_research_draft(drafts,
                                    NewDraft(Cand(i), w[i].text, w[i].qa_ok, w[i].acc))
    /\ w' = SetPc(i, "inc")
    /\ UNCHANGED <<job, reports, run, cfg, cancel_pc, nonJobVars>>

\* line 771
IncDrafts(i) ==
    /\ w[i].pc = "inc"
    /\ job' = increment_research_job_counts(job, 1, 0)
    /\ run' = [run EXCEPT !.counters = BumpCounter(@, "drafts")]
    /\ w' = SetPc(i, IF w[i].qa_ok THEN "accept" ELSE "done")
    /\ UNCHANGED <<drafts, reports, cfg, cancel_pc, nonJobVars>>

\* lines 777-781: accepted_count is written as the value read at line 750 plus 1
Accept(i) ==
    /\ w[i].pc = "accept"
    /\ job' = [job EXCEPT !.accepted_count = w[i].acc + 1]
    /\ w' = SetPc(i, "done")
    /\ UNCHANGED <<drafts, reports, run, cfg, cancel_pc, nonJobVars>>

----------------------------------------------------------------------------
(* The external actor *)

\* the job is canceled from 'pending', 'running' or 'finalizing'
Cancel ==
    /\ job.status \in {"pending", "running", "finalizing"}
    /\ cancel_pc = ""
    /\ job' = SetStatus(job, "canceled")
    /\ cancel_pc' = run.pc
    /\ UNCHANGED <<drafts, reports, run, w, cfg, nonJobVars>>

----------------------------------------------------------------------------

Next ==
    \/ Start \/ BuildLLM \/ LoopHead \/ Gather
    \/ Finalizing \/ BuildReport \/ SaveReport \/ Finalized
    \/ \E i \in DOMAIN w : Queue(i)
    \/ \E i \in DOMAIN w : CheckStatus(i)
    \/ \E i \in DOMAIN w : Fetch(i)
    \/ \E i \in DOMAIN w : CountError(i)
    \/ \E i \in DOMAIN w : Extract(i)
    \/ \E i \in DOMAIN w : DupCheck(i)
    \/ \E i \in DOMAIN w : ReadAccepted(i)
    \/ \E i \in DOMAIN w : AddDraft(i)
    \/ \E i \in DOMAIN w : IncDrafts(i)
    \/ \E i \in DOMAIN w : Accept(i)
    \/ Cancel

Spec == Init /\ [][Next]_vars

\* the run of a job that nobody cancels
NextRun ==
    \/ Start \/ BuildLLM \/ LoopHead \/ Gather
    \/ Finalizing \/ BuildReport \/ SaveReport \/ Finalized
    \/ \E i \in DOMAIN w : Queue(i)
    \/ \E i \in DOMAIN w : CheckStatus(i)
    \/ \E i \in DOMAIN w : Fetch(i)
    \/ \E i \in DOMAIN w : CountError(i)
    \/ \E i \in DOMAIN w : Extract(i)
    \/ \E i \in DOMAIN w : DupCheck(i)
    \/ \E i \in DOMAIN w : ReadAccepted(i)
    \/ \E i \in DOMAIN w : AddDraft(i)
    \/ \E i \in DOMAIN w : IncDrafts(i)
    \/ \E i \in DOMAIN w : Accept(i)

InitRun == InitJob(RunConfigs) /\ InitFetch /\ InitRate({4}) /\ InitDisc /\ InitCrawl({<< >>}) /\ InitSearch({NoSearchKeys}) /\ InitCanon

\* the job's configuration in the runs of a row that is run again
RerunConfig ==
    [ target |-> 1, concurrency |-> 1, max_candidates |-> 3, min_score |-> 8,
      require_incident |-> FALSE, require_au |-> FALSE, accept_all |-> "false",
      server_type |-> "ollama", discovery |-> "results" ]

\* run_research_job is called again with the id of a row whose run has ended
\* without finalizing the job (the job is resumable): the locals are new, the
\* row, its drafts and the reports are what the earlier run left
Rerun ==
    /\ run.pc = "done"
    /\ job.status # "finalized"
    /\ job.drafts_count + job.errors_count <= MaxCarried
    /\ run' = [ pc |-> "start", page_index |-> 0, min_score |-> cfg.min_score,
                total_seen |-> 0, seen |-> {}, stop |-> "", listed |-> << >>,
                rid |-> 0, llm |-> "", raised |-> "", counters |-> NoCounts ]
    /\ w' = << >>
    /\ UNCHANGED <<job, drafts, reports, cfg, cancel_pc, nonJobVars>>

NextRerun == NextRun \/ Rerun

InitRerun ==
    InitJob({RerunConfig}) /\ InitFetch /\ InitRate({4}) /\ InitDisc
      /\ InitCrawl({<< >>}) /\ InitSearch({NoSearchKeys}) /\ InitCanon

SpecRerun == InitRerun /\ [][NextRerun]_vars

\* the event loop runs every task that can run, and every awaited call returns
SpecRun == InitRun /\ [][NextRun]_vars /\ WF_vars(NextRun)

----------------------------------------------------------------------------
(* Properties of the job orchestrator *)

\* the positions of run_research_job inside its running loop
LoopPcs == {"loop", "gather"}

C3_CanceledStays ==
    [][(job.status = "canceled" /\ cancel_pc \in LoopPcs)
          => (job'.status = "canceled" /\ reports' = reports)]_vars

\* C4: once the job is 'canceled', 'failed' or 'finalized', a worker that
\* passed its pre-fetch check inserts no draft and changes no job counter.
C4_DiscardAfterStop ==
    [][(job.status \in Terminal /\ w' # w)
          => /\ drafts' = drafts
             /\ job'.accepted_count = job.accepted_count
             /\ job'.drafts_count = job.drafts_count
             /\ job'.errors_count = job.errors_count]_vars

\* the transitions of the job's state machine
AllowedTransitions ==
    { <<"pending", "running">>, <<"running", "finalizing">>,
      <<"finalizing", "finalized">>, <<"finalizing", "failed">>,
      <<"running", "failed">>, <<"pending", "canceled">>,
      <<"running", "canceled">>, <<"finalizing", "canceled">> }

\* C5: the status changes only along the state machine's transitions, and
\* never leaves 'finalized', 'failed' or 'canceled'.
C5_StatusTransitions ==
    [][job'.status # job.status
          => <<job.status, job'.status>> \in AllowedTransitions]_vars

\* C6: a worker enters the fetch only when the row just read is not in a
\* stopping status and has accepted_count < target_count; and once the loop
\* has stopped on the target, nothing is fetched and no draft is created.
C6_FetchOnlyWhenOpen ==
    [][/\ \A i \in DOMAIN w' :
             (w'[i].pc = "fetch" /\ (i \notin DOMAIN w \/ w[i].pc # "fetch"))
                => (job.status \in {"pending", "running"}
                    /\ job.accepted_count < cfg.target)
       /\ run.stop = "target" => (drafts' = drafts /\ w' = << >>)]_vars

C6_Witness ==
    /\ run.stop = "target"
    /\ Len(drafts) >= 2
    /\ run.page_index >= 1

\* C7: drafts_count >= accepted_count in every state.
C7_DraftsCoverAccepted == job.drafts_count >= job.accepted_count

C7_Witness ==
    /\ job.accepted_count >= 1
    /\ \E i \in DOMAIN w : w[i].pc = "accept" /\ w[i].acc < job.accepted_count

\* C8: the minimum score never increases; a step replaces it by
\* max(0.5, threshold - 0.5), and no step takes it below 0.5.
C8_MinScoreMonotone ==
    [][/\ run'.min_score <= run.min_score
       /\ run'.min_score <= cfg.min_score
       /\ run'.min_score # run.min_score =>
             /\ run'.min_score >= ScoreFloor
             /\ run'.min_score =
                  (IF run.min_score - ScoreStep >= ScoreFloor
                     THEN run.min_score - ScoreStep ELSE ScoreFloor)]_vars

C8_Witness ==
    /\ cfg.min_score = 8
    /\ run.min_score = ScoreFloor
    /\ Len(drafts) >= 1

----------------------------------------------------------------------------
(* The page cache *)

\* the cached_pages row a fetch works on
RowOf(f) == cache[_canon_url(f.url)]

C10_Witness_Replaced ==
    \E j \in Slots :
        /\ fj[j].pc = "upsert" /\ fj[j].expired /\ fj[j].resp.status = 200
        /\ fj[j].text # fj[j].row.text

----------------------------------------------------------------------------
(* The per-domain rate limiter *)

\* the step completes a pass of domain d that follows an earlier pass of d
NextPass(d) ==
    /\ d \in DOMAIN domain_last
    /\ \E i \in RateTasks :
          rt[i].dom = d /\ rt[i].pc \in {"enter", "sleep"} /\ rt'[i].pc = "done"

----------------------------------------------------------------------------
(* Fetch failures *)

\* C12: when the fetch of a candidate yields no text, the step that counts it
\* raises errors_count by exactly 1 and changes nothing else of the job: no
\* draft is inserted (none exists for that URL, which stays in the seen set),
\* the status and the run's position are as before, and the task is over, so
\* that its permit goes to the remaining candidates.
C12_FetchFailureCounted ==
    [][\A i \in DOMAIN w :
          (w[i].pc = "errinc" /\ w' # w /\ w'[i].pc # "errinc")
             => /\ job' = [job EXCEPT !.errors_count = job.errors_count + 1]
                /\ drafts' = drafts
                /\ \A k \in DOMAIN drafts :
                      CanonLower(drafts[k].source_url) # CanonLower(Cand(i).url)
                /\ CanonLower(Cand(i).url) \in run.seen
                /\ run' = run
                /\ w' = [w EXCEPT ![i].pc = "done"]
      ]_vars

\* a fetch failed on an earlier page and the job is at work on the next one
C12_Witness ==
    /\ job.errors_count >= 1
    /\ job.status = "running"
    /\ run.page_index >= 1
    /\ \E i \in DOMAIN w : w[i].pc = "fetch"

----------------------------------------------------------------------------
(* One pass per canonical URL *)

C14_EmptyDiscoveryFinalizes ==
    (cfg.discovery = "empty" /\ run.pc = "loop")
        ~> (/\ run.pc = "done"
            /\ run.raised = "" =>
                 /\ job.status = "finalized"
                 /\ job.accepted_count = 0
                 /\ job.research_id \in DOMAIN reports
                 /\ reports[job.research_id] = [incidents |-> 0, sections |-> << >>])

C14_Witness ==
    /\ cfg.discovery = "empty"
    /\ run.pc = "done"
    /\ run.stop = "empty"
    /\ job.status = "finalized"
    /\ job.accepted_count = 0
    /\ job.research_id \in DOMAIN reports
    /\ reports[job.research_id] = [incidents |-> 0, sections |-> << >>]

\* C15: a stored report has exactly one section per draft with qa_status
\* 'ok' and none for a failed draft, the sections are numbered 1..n in the
\* order in which the drafts were committed, and the summary counts n incidents.
C15_ReportSections ==
    \A rid \in DOMAIN reports :
        LET ok == SelectSeq(drafts, LAMBDA d : d.qa_status = "ok")
            rep == reports[rid]
        IN  /\ rep.incidents = Len(ok)
            /\ Len(rep.sections) = Len(ok)
            /\ \A i \in 1..Len(ok) :
                 /\ rep.sections[i].number = i
                 /\ rep.sections[i].title = ok[i].title
                 /\ rep.sections[i].source = ok[i].source_url

\* a report of two sections whose drafts were stored with the same number,
\* beside a failed draft
C15_Witness ==
    /\ reports # << >>
    /\ Len(reports[1].sections) = 2
    /\ \E i, j \in DOMAIN drafts :
         /\ i < j
         /\ drafts[i].qa_status = "ok" /\ drafts[j].qa_status = "ok"
         /\ drafts[i].markdown_snippet.number = drafts[j].markdown_snippet.number
    /\ \E k \in DOMAIN drafts : drafts[k].qa_status = "failed"

\* C16: a job for whose backend no model client is constructed is 'failed'
\* straight after 'running', with no candidate discovered, fetched or drafted:
\* past the construction, a job without a client has status 'failed', no
\* worker task, no examined candidate and no draft.
C16_NoClientNoCandidates ==
    (run.pc \notin {"start", "llm"} /\ run.llm # "client")
        => /\ job.status = "failed"
           /\ w = << >>
           /\ run.total_seen = 0
           /\ drafts = << >>

\* C17: an exception raised while the drafts are listed, the report is built
\* or stored, or the link is recorded moves the job from 'finalizing' to
\* 'failed' and leaves the stored drafts as they are.
C17_FinalizeErrorFails ==
    [][(run.raised = "" /\ run'.raised \in {"list", "save", "link"})
          => /\ job.status = "finalizing"
             /\ job'.status = "failed"
             /\ drafts' = drafts]_vars

\* C20: under fair scheduling a job that nobody cancels and whose model
\* client is constructed leaves the running loop and reaches 'finalized' or
\* 'failed', whatever discovery does (empty, failing, or the same already-seen
\* candidates on every page).  A run ended by an exception of the listing of
\* the drafts (C17) is not held against this property.
C20_JobTerminates ==
    (run.pc = "loop" /\ run.llm = "client")
        ~> (job.status \in {"finalized", "failed"} \/ run.raised = "list")

----------------------------------------------------------------------------
(* Source-free discovery *)

\* the canonical lower-case URLs of a list of entries
KeysOf(items) == {CanonLower(items[i].url) : i \in DOMAIN items}

\* C18: in source-free discovery the merged candidate list holds, once each,
\* exactly the URLs returned by the sources that did not fail and whose
\* provider task did not raise: a failing feed, domain or provider removes
\* nothing that another source contributes (and discovery writes no job status).
C18_DiscoveryIsolated ==
    discovered.pc = "merged" =>
        /\ KeysOf(discovered.candidates) =
             UNION { KeysOf(leaf[s].items) :
                       s \in { x \in DiscSources :
                                 \E k \in DOMAIN Providers :
                                    /\ pages[k].st = "ok"
                                    /\ \E i \in DOMAIN SourcesOf(Providers[k]) :
                                          SourcesOf(Providers[k])[i] = x } }
        /\ \A i, j \in DOMAIN discovered.candidates :
              CanonLower(discovered.candidates[i].url)
                 = CanonLower(discovered.candidates[j].url) => i = j
        /\ job.status = "pending"

\* one feed failed and one provider task raised, and the candidates of the
\* other feed and of another provider are in the merged list
C18_Witness ==
    /\ discovered.pc = "merged"
    /\ leaf["feed1"].st = "failed"
    /\ leaf["feed2"].items # << >>
    /\ pages[1].st = "ok"
    /\ pages[2].st = "raised"
    /\ leaf["crawl"].items # << >>
    /\ KeysOf(leaf["crawl"].items) # KeysOf(leaf["feed2"].items)
    /\ Len(discovered.candidates) >= 2

----------------------------------------------------------------------------
(* URL canonicalization *)

\* C19: canonicalization is idempotent for every input string, with or without
\* a scheme, and its result has the scheme and the host in lower case, no
\* query, no fragment and no trailing slash.
C19_CanonIdempotent ==
    canon.pc = "twice" =>
        /\ canon.twice = canon.once
        /\ \A i \in DOMAIN canon.once : canon.once[i] \notin {"HTTP", "Ex.com", "?", "#"}
        /\ (canon.once = << >> \/ canon.once[Len(canon.once)] # "/")

----------------------------------------------------------------------------
(* Counters under concurrency *)

C22_DomainSerialized ==
    \A i, k \in RateTasks :
        (i # k /\ rt[i].pc = "done" /\ rt[k].pc = "done") => rt[i].dom # rt[k].dom

\* C23: at any moment at most `concurrency` pipelines of a job are in
\* flight; a pipeline that has ended, by return or by exception, holds no
\* permit, so that while a task waits for a permit exactly `concurrency`
\* pipelines are running.
C23_AtMostConcurrency ==
    /\ InFlight <= cfg.concurrency
    /\ (\E i \in DOMAIN w : w[i].pc = "wait" /\ ~ENABLED Queue(i))
          => InFlight = cfg.concurrency

\* the pipeline of the first task raised at the gate (the unbound name), its
\* permit went back and the second task runs with it
C23_Witness ==
    /\ cfg.concurrency = 1
    /\ cfg.accept_all = "unbound"
    /\ Len(w) = 2
    /\ w[1].pc = "done" /\ w[1].text # NoText
    /\ w[2].pc = "fetch"

----------------------------------------------------------------------------
(* Adaptive relaxation *)

DraftsOf(u) == {k \in DOMAIN drafts : drafts[k].source_url = u}

C25_RejectedStoredAsFailed ==
    \A i \in DOMAIN w :
        (cfg.accept_all = "false" /\ w[i].pc = "done" /\ w[i].text # NoText /\ ~w[i].qa_ok)
            => /\ Cardinality(DraftsOf(Cand(i).url)) = 1
               /\ \A k \in DraftsOf(Cand(i).url) : drafts[k].qa_status = "failed"

\* ---------------------------------------------------------------------------
\* C27: whenever a candidate matches a prior draft of the job by canonical
\* URL, by normalized title or by content hash, the draft stored for it has
\* is_duplicate set and qa_status 'failed', whatever its score.
MatchesPrior(d, prior) ==
    \E k \in DOMAIN prior :
        \/ prior[k].canonical_url = d.canonical_url
        \/ prior[k].title_key = d.title_key
        \/ prior[k].content_hash = d.content_hash

ErrorEvent(i) ==
    \/ w[i].pc = "errinc" /\ w'[i].pc = "done"
    \/ w[i].pc = "extract" /\ w'[i].pc # "extract" /\ w'[i].fields.fallback
    \/ /\ w[i].pc = "extract" /\ w'[i].pc = "done"
       /\ cfg.accept_all = "unbound" /\ (cfg.require_incident => w[i].text.kw)

C30_ErrorsCounted ==
    [][\A i \in DOMAIN w :
         ErrorEvent(i) => job'.errors_count = job.errors_count + 1]_vars

\* ---------------------------------------------------------------------------
\* C28: in search mode the secondary backend (Tavily) is queried for a page
\* only if the primary (SerpAPI) returned no results or raised; when the
\* primary returned results the secondary is not called.
C28_SecondaryOnlyAfterPrimaryFailed ==
    search.tavily # "none" => search.serpapi # "results"

\* ---------------------------------------------------------------------------
\* C32: when a job starts (its row is set to 'running'), accepted_count,
\* drafts_count and errors_count are all 0, also when the row carries counts
\* of an earlier run.
C32_StartResetsCounters ==
    [][(run.pc = "start" /\ run'.pc = "llm")
          => /\ job'.status = "running"
             /\ job'.accepted_count = 0
             /\ job'.drafts_count = 0
             /\ job'.errors_count = 0]_vars

\* ---------------------------------------------------------------------------
\* C31: the counters of the progress stream mirror the persisted ones: in
\* the run of a new row, whenever no worker stands between the two halves of
\* an update, the stream's drafts and errors equal the row's drafts_count and
\* errors_count, and no step makes any of the four smaller.
MidUpdate == \E i \in DOMAIN w : w[i].pc = "errinc"

NoTwoAlike(items) ==
    \A i, j \in DOMAIN items :
        i # j => CanonLower(items[i].url) # CanonLower(items[j].url)

C35_NoDuplicateCandidates ==
    /\ \A k \in DOMAIN pages : NoTwoAlike(pages[k].items)
    /\ NoTwoAlike(discovered.candidates)

\* the two feeds list the same page under two spellings, the crawl lists it
\* too, and both the provider's list and the merged list hold it once
C35_Witness ==
    /\ discovered.pc = "merged"
    /\ leaf["feed1"].items = << Item(Url("a.au", "/news/1", ""), "Breach") >>
    /\ leaf["feed2"].items = << Item(Url("A.au", "/news/1", "x"), "Breach") >>
    /\ leaf["crawl"].items # << >>
    /\ KeysOf(leaf["crawl"].items) = KeysOf(leaf["feed1"].items)
    /\ pages[1].st = "ok" /\ Len(pages[1].items) = 1
    /\ pages[3].st = "ok"
    /\ Len(discovered.candidates) = 1

\* ---------------------------------------------------------------------------
(* The domain crawl and robots.txt *)

\* the crawl task t stands before a link that passes the filters of lines
\* 22-27, so that its next step asks is_allowed_by_robots
AsksRobots(t) ==
    /\ ct[t].pc = "loop" /\ ct[t].links # << >>
    /\ CanonLower(Head(ct[t].links)) \notin ct[t].seen
    /\ same_domain(Head(ct[t].links), ct[t].domain)
    /\ looks_like_article(Head(ct[t].links))

\* the step keeps the link
Kept(t) == Len(ct'[t].results) = Len(ct[t].results) + 1

\* C33: for every domain and every max_pages_per_domain >= 0 the crawl keeps
\* at most max_pages_per_domain URLs, and every URL it keeps is on the
\* domain, is article-shaped and is allowed by the rules of robots.txt in
\* force when it is kept.
C33_CrawlWithinBudget ==
    [][\A t \in CrawlTasks :
         (ct[t].pc \in {"loop", "robots"} /\ Kept(t))
            => LET u == ct'[t].results[Len(ct'[t].results)]
               IN  /\ Len(ct'[t].results) <= ct[t].max_pages
                   /\ same_domain(u, ct[t].domain)
                   /\ looks_like_article(u)
                   /\ can_fetch(_robots_cache'[ct[t].domain].rules, u.path)]_vars

\* C34: is_allowed_by_robots answers 'allowed' when robots.txt cannot be
\* fetched (no rules are stored then); while a stored rule set of the domain
\* is within its TTL the answer comes from it and no request is made; once
\* it is older than the TTL, robots.txt is requested again.
C34_RobotsCache ==
    [][\A t \in CrawlTasks :
         /\ (ct[t].pc = "robots" /\ ct'[t].pc # "robots"
             /\ _robots_cache'[ct[t].domain].rules = {}) => Kept(t)
         /\ (AsksRobots(t) /\ ct'[t] # ct[t] /\ _robots_cache[ct[t].domain].stored)
              => IF now - _robots_cache[ct[t].domain].at <= RobotsTtl
                   THEN /\ ct'[t].pc # "robots"
                        /\ _robots_cache' = _robots_cache
                        /\ Kept(t) <=> can_fetch(_robots_cache[ct[t].domain].rules,
                                                 Head(ct[t].links).path)
                   ELSE ct'[t].pc = "robots" /\ ct'[t].at = now]_vars

\* robots.txt of a.au was requested at hour 0 and held no rules (or could not
\* be fetched), two links of the domain were kept, among them the one a rule
\* set could forbid, and at hour 2 the task of the other crawl of the domain
\* requests robots.txt again
C34_Witness ==
    /\ ct[1].domain = "a.au" /\ ct[2].domain = "a.au"
    /\ _robots_cache["a.au"] = [stored |-> TRUE, at |-> 0, rules |-> {}]
    /\ \E k \in DOMAIN ct[1].results : ct[1].results[k].path = "/private/3"
    /\ now = 2 /\ ct[2].pc = "robots" /\ ct[2].at = 2
    /\ Len(ct[2].results) = 1

\* ---------------------------------------------------------------------------
\* C36: drafts are append-only: no step of a run, whether a further
\* candidate, the cancellation, the finalization or a failure, changes or
\* removes a stored draft; a step leaves the rows as they are or adds one
\* after them.
C36_DraftsAppendOnly ==
    [][\/ drafts' = drafts
       \/ /\ Len(drafts') = Len(drafts) + 1
          /\ SubSeq(drafts', 1, Len(drafts)) = drafts]_vars

\* a job that was canceled and then finalized, with two drafts stored
C36_Witness ==
    /\ cancel_pc # "" /\ job.status = "finalized"
    /\ Len(drafts) = 2

RaisedIn(i) ==
    /\ cfg.accept_all = "unbound" /\ w[i].pc = "done" /\ w[i].text # NoText
    /\ cfg.require_incident => w[i].text.kw

C38_ExceptionIsolated ==
    /\ [][\A i \in DOMAIN w :
            (w[i].pc = "extract" /\ cfg.accept_all = "unbound"
             /\ (cfg.require_incident => w[i].text.kw) /\ w'[i] # w[i])
               => /\ w'[i].pc = "done"
                  /\ \A k \in DOMAIN w : k # i => w'[k] = w[k]
                  /\ job' = job /\ run' = run /\ drafts' = drafts]_vars
    /\ (\E i \in DOMAIN w : RaisedIn(i)) ~> (run.pc # "gather")

\* the first worker of a page has raised, and its sibling has fetched its
\* page since, in a job that is still running
C38_Witness ==
    /\ Len(w) = 2 /\ RaisedIn(1)
    /\ w[2].pc = "extract"
    /\ job.status = "running" /\ run.pc = "gather"

\* ---------------------------------------------------------------------------
\* C39: whenever the job's row reads 'finalized', finished_at is set and
\* research_id is the id of the report this run saved, a report that is in
\* the store with the text the run composed; no state has 'finalized'
\* without the link.
C39_FinalizedIsLinked ==
    job.status = "finalized" =>
        /\ job.finished
        /\ job.research_id = run.rid
        /\ job.research_id \in 1..Len(reports)
        /\ reports[job.research_id] = final_text(run.listed)

\* a finalized job whose row links the one report in the store
C39_Witness ==
    /\ job.status = "finalized" /\ job.finished
    /\ Len(reports) = 1 /\ job.research_id = 1
    /\ run.pc = "done"

====
